---- MODULE Spec2Model ----
(***************************************************************************)
(* Creation patterns of the LLD-patterns repository: the simple factory    *)
(* and the factory method for shipping methods, the abstract furniture     *)
(* factory, the meal builder with its director, and the prototype registry *)
(* of game characters.  Every program is single threaded; each operation   *)
(* of a class is one action.  Pointers are small integers, NULL is 0.      *)
(***************************************************************************)
EXTENDS Integers, Sequences, FiniteSets, TLC

\* ---------------------------------------------------------------- bounds
\* Selectors typed at the prompt range over -1 .. MaxChoice.
MaxChoice == 4
\* Weights and distances range over 0 .. Max, plus the values main() uses.
MaxWeight == 2
MaxDistance == 2
\* Pieces of furniture one factory is asked for.
MaxProducts == 4
\* Member calls made on one meal builder.
MaxCalls == 8
\* Addresses of the Character heap, and addPrototype calls on one registry.
MaxChars == 3
MaxAdds == 3
\* Sequential getInstance calls in one process.
MaxGets == 4
\* Entries of the observer list of one weather station.
MaxObservers == 3
\* Calls made on one Navigator.
MaxNavCalls == 4
\* Coffee objects on the heap: one SimpleCoffee and the decorators around it.
MaxCoffees == 5
\* Tickets issued by the parking lot.
MaxTickets == 2

\* The arguments main() passes to calculateShippingCost.
MainWeight == 10
MainDistance == 500

NULL == 0

Choices == (0 - 1) .. MaxChoice
Weights == (0 .. MaxWeight) \cup {MainWeight}
Distances == (0 .. MaxDistance) \cup {MainDistance}

VARIABLES
    \* simple factory / factory method (shipping)
    shippingChoice,     \* the selector read by main(), NULL-like -2 before any
    shippingFactory,    \* factory method only: the concrete creator, or "null"
    shippingMethod,     \* concrete class of the ShippingMethod, or "null"
    shippingRaised,     \* exception that left the last creation, or "none"
    shipWeight, shipDistance,
    shipCost,           \* result of calculateShippingCost in tenths, -1 = not computed
    \* abstract factory (furniture)
    furnitureChoice,
    furnitureFactory,   \* concrete class of the FurnitureFactory, or "null"
    furnitureRaised,
    furniture,          \* the pieces the factory has returned, in call order
    \* builder (meals)
    builderKind,        \* concrete class of the MealBuilder
    builderMeal,        \* the builder's field meal: address of its Meal
    meals,              \* the heap of Meal objects: address -> dishes
    returnedMeal,       \* the pointer the last getMeal/constructMeal returned, or NULL
    builderRaised,      \* exception that left the last builder call, or "none"
    builderLastOp,      \* the last call made by the client
    builderCalls,       \* history: the member calls made on the builder so far
    returnedDishes,     \* history: the dishes of the Meal when it was last returned
    \* prototype registry (characters)
    chars,              \* the heap of Character objects: address -> object
    prototypes,         \* CharacterRegistry::prototypes: type -> address
    issued,             \* the clones the client holds, in the order it got them
    regLastOp,          \* the last call made by the client
    regLastType,        \* its type argument, or ""
    regResult,          \* the pointer the last getPrototype returned, or NULL
    regRaised,          \* exception that left the last registry call, or "none"
    addLog,             \* history: the <<type, address>> of every addPrototype call
    regState,           \* "alive", or how ~CharacterRegistry ended
    released,           \* address -> how often ~CharacterRegistry deleted it
    \* singleton (database connection)
    dbInstance,         \* DatabaseConnection::instance, or NULL
    dbHeap,             \* the DatabaseConnection objects constructed so far:
                        \* address -> connectionString, in construction order
    dbArgs,             \* history: the arguments of the sequential getInstance calls
    dbReturned,         \* history: what these calls returned
    thPc,               \* per thread: where it is in its getInstance call
    thArg,              \* per thread: its connectionStr argument
    thNew,              \* per thread: the object it constructed, or NULL
    thRet,              \* per thread: what its call returned, or NULL
    \* observer (weather station)
    observers,          \* WeatherStation::observers, in registration order
    temperature,        \* WeatherStation::temperature in tenths, Indeterminate at first
    notified,           \* the update(value) calls of the last notifyObservers run:
                        \* <<observer, value>>, in call order
    obsLastOp,          \* the last call made by the client
    obsLastArg,         \* its argument, or NULL
    obsBefore,          \* history: the list just before the last removeObserver
    removedSince,       \* history: observers removed and not added again since
    \* strategy (navigator)
    navStrategy,        \* Navigator::strategy
    navLog,             \* history: the calls made on the navigator and what
                        \* each navigate printed and invoked
    \* decorator (coffee)
    coffeeHeap,         \* the Coffee objects: class and CoffeeDecorator::coffee
    myCoffee,           \* main's myCoffee: the object last created
    printed,            \* what main printed for it: description() and cost()
    \* parking lot
    spots,              \* per ParkingSpot: isAvailable and currentVehicle
    tickets,            \* the Tickets issued; Ticket::id is the position
    parkLast            \* history: the last call, the spot before it, its result

creatorVars == <<shippingChoice, shippingFactory, shippingMethod, shippingRaised,
                 shipWeight, shipDistance, shipCost,
                 furnitureChoice, furnitureFactory, furnitureRaised, furniture>>

builderVars == <<builderKind, builderMeal, meals, returnedMeal, builderRaised,
                 builderLastOp, builderCalls, returnedDishes>>

registryVars == <<chars, prototypes, issued, regLastOp, regLastType, regResult,
                  regRaised, addLog, regState, released>>

creationVars == <<creatorVars, builderVars, registryVars>>

singletonVars == <<dbInstance, dbHeap, dbArgs, dbReturned, thPc, thArg, thNew, thRet>>

\* The variables of the structural and behavioural pattern programs.
observerVars == <<observers, temperature, notified, obsLastOp, obsLastArg,
                  obsBefore, removedSince>>

navigatorVars == <<navStrategy, navLog>>

coffeeVars == <<coffeeHeap, myCoffee, printed>>

parkingVars == <<spots, tickets, parkLast>>

patternVars == <<singletonVars, observerVars, navigatorVars, coffeeVars, parkingVars>>

vars == <<creationVars, patternVars>>

NoChoice == 0 - 2

\* ------------------------------------------------- shipping: the products
\* The rate literals 0.5, 0.3 and 0.1 of calculateShippingCost, in tenths.
AirShipping_calculateShippingCost(weight, distance) == weight * distance * 5
SeaShipping_calculateShippingCost(weight, distance) == weight * distance * 3
GroundShipping_calculateShippingCost(weight, distance) == weight * distance * 1

\* Virtual dispatch of ShippingMethod::calculateShippingCost on the concrete class.
calculateShippingCost(method, weight, distance) ==
    CASE method = "AirShipping" -> AirShipping_calculateShippingCost(weight, distance)
      [] method = "SeaShipping" -> SeaShipping_calculateShippingCost(weight, distance)
      [] method = "GroundShipping" -> GroundShipping_calculateShippingCost(weight, distance)

\* (a faulty variant, for comparison: the Sea branch is lost)
createShippingMethod_NoSea(choice) ==
    IF choice = 1 THEN "AirShipping" ELSE "GroundShipping"

\* ShippingFactory::createShippingMethod(int) of the simple factory.
createShippingMethod(choice) ==
    IF choice = 1 THEN "AirShipping"
    ELSE IF choice = 2 THEN "SeaShipping"
    ELSE "GroundShipping"

\* main() of the factory method program: the concrete creator for a selector.
selectShippingFactory(choice) ==
    IF choice = 1 THEN "AirShippingFactory"
    ELSE IF choice = 2 THEN "SeaShippingFactory"
    ELSE "GroundShippingFactory"

\* The three overrides of ShippingFactory::createShippingMethod().
factoryCreateShippingMethod(factory) ==
    CASE factory = "AirShippingFactory" -> "AirShipping"
      [] factory = "SeaShippingFactory" -> "SeaShipping"
      [] factory = "GroundShippingFactory" -> "GroundShipping"

\* ------------------------------------------------ furniture: the factories
\* main() of the abstract factory program: the factory for a selector.
selectFurnitureFactory(choice) ==
    IF choice = 1 THEN "VictorianFurnitureFactory" ELSE "ModernFurnitureFactory"

createChair(factory) ==
    CASE factory = "VictorianFurnitureFactory" -> "VictorianChair"
      [] factory = "ModernFurnitureFactory" -> "ModernChair"

\* (a faulty variant, for comparison: every factory returns a Victorian sofa)
createSofa_Mixed(factory) == "VictorianSofa"
createSofa(factory) ==
    CASE factory = "VictorianFurnitureFactory" -> "VictorianSofa"
      [] factory = "ModernFurnitureFactory" -> "ModernSofa"

\* The style a product reports in sitOn() / lieOn().
StyleOf(product) ==
    CASE product \in {"VictorianChair", "VictorianSofa"} -> "Victorian"
      [] product \in {"ModernChair", "ModernSofa"} -> "Modern"

InitCreator ==
    /\ shippingChoice = NoChoice
    /\ shippingFactory = "null"
    /\ shippingMethod = "null"
    /\ shippingRaised = "none"
    /\ shipWeight = 0
    /\ shipDistance = 0
    /\ shipCost = 0 - 1
    /\ furnitureChoice = NoChoice
    /\ furnitureFactory = "null"
    /\ furnitureRaised = "none"
    /\ furniture = <<>>

shippingVars == <<shippingChoice, shippingFactory, shippingMethod, shippingRaised,
                  shipWeight, shipDistance, shipCost>>
furnitureVars == <<furnitureChoice, furnitureFactory, furnitureRaised, furniture>>

\* Simple factory, main(): read the selector and create the method.
CreateShippingMethod(choice) ==
    /\ shippingChoice' = choice
    /\ shippingFactory' = "null"
    /\ shippingMethod' = createShippingMethod(choice)
    /\ shippingRaised' = "none"
    /\ shipWeight' = 0
    /\ shipDistance' = 0
    /\ shipCost' = 0 - 1
    /\ UNCHANGED furnitureVars
    /\ UNCHANGED builderVars
    /\ UNCHANGED registryVars
    /\ UNCHANGED patternVars

\* Factory method, main(): pick the creator and let it create the method.
FactoryMethodCreate(choice) ==
    /\ shippingChoice' = choice
    /\ shippingFactory' = selectShippingFactory(choice)
    /\ shippingMethod' = factoryCreateShippingMethod(selectShippingFactory(choice))
    /\ shippingRaised' = "none"
    /\ shipWeight' = 0
    /\ shipDistance' = 0
    /\ shipCost' = 0 - 1
    /\ UNCHANGED furnitureVars
    /\ UNCHANGED builderVars
    /\ UNCHANGED registryVars
    /\ UNCHANGED patternVars

\* shippingMethod->calculateShippingCost(weight, distance)
CalculateShippingCost(weight, distance) ==
    /\ shippingMethod # "null"
    /\ shipWeight' = weight
    /\ shipDistance' = distance
    /\ shipCost' = calculateShippingCost(shippingMethod, weight, distance)
    /\ UNCHANGED <<shippingChoice, shippingFactory, shippingMethod, shippingRaised>>
    /\ UNCHANGED furnitureVars
    /\ UNCHANGED builderVars
    /\ UNCHANGED registryVars
    /\ UNCHANGED patternVars

\* Abstract factory, main(): read the selector and create the factory.
SelectFurnitureFactory(choice) ==
    /\ furnitureChoice' = choice
    /\ furnitureFactory' = selectFurnitureFactory(choice)
    /\ furnitureRaised' = "none"
    /\ furniture' = <<>>
    /\ UNCHANGED shippingVars
    /\ UNCHANGED builderVars
    /\ UNCHANGED registryVars
    /\ UNCHANGED patternVars

CreateChair ==
    /\ furnitureFactory # "null"
    /\ Len(furniture) < MaxProducts
    /\ furniture' = Append(furniture, createChair(furnitureFactory))
    /\ UNCHANGED <<furnitureChoice, furnitureFactory, furnitureRaised>>
    /\ UNCHANGED shippingVars
    /\ UNCHANGED builderVars
    /\ UNCHANGED registryVars
    /\ UNCHANGED patternVars

CreateSofa ==
    /\ furnitureFactory # "null"
    /\ Len(furniture) < MaxProducts
    /\ furniture' = Append(furniture, createSofa(furnitureFactory))
    /\ UNCHANGED <<furnitureChoice, furnitureFactory, furnitureRaised>>
    /\ UNCHANGED shippingVars
    /\ UNCHANGED builderVars
    /\ UNCHANGED registryVars
    /\ UNCHANGED patternVars

NextCreator ==
    \/ \E choice \in Choices : CreateShippingMethod(choice)
    \/ \E choice \in Choices : FactoryMethodCreate(choice)
    \/ \E weight \in Weights, distance \in Distances :
           CalculateShippingCost(weight, distance)
    \/ \E choice \in Choices : SelectFurnitureFactory(choice)
    \/ CreateChair
    \/ CreateSofa

\* ------------------------------------------------------ builder: the meal
Builders == {"VegetarianMealBuilder", "NonVegetarianMealBuilder"}

\* Meal::addDish: dishes.push_back(dish)
addDish(dishes, dish) == Append(dishes, dish)

VegetarianMealBuilder_buildMainDish(dishes) == addDish(dishes, "Vegetarian Burger")
\* (a faulty variant, for comparison: the side dish is added at most once)
VegetarianMealBuilder_buildSideDish_Once(dishes) ==
    IF \E i \in 1 .. Len(dishes) : dishes[i] = "Salad" THEN dishes
    ELSE addDish(dishes, "Salad")
VegetarianMealBuilder_buildSideDish(dishes) == addDish(dishes, "Salad")
VegetarianMealBuilder_buildDrink(dishes) == addDish(dishes, "Lemonade")
NonVegetarianMealBuilder_buildMainDish(dishes) == addDish(dishes, "Chicken Burger")
NonVegetarianMealBuilder_buildSideDish(dishes) == addDish(dishes, "Fries")
NonVegetarianMealBuilder_buildDrink(dishes) == addDish(dishes, "Coke")

\* Virtual dispatch of the MealBuilder steps; each maps the dishes of *meal.
buildMainDish(kind, dishes) ==
    IF kind = "VegetarianMealBuilder" THEN VegetarianMealBuilder_buildMainDish(dishes)
    ELSE NonVegetarianMealBuilder_buildMainDish(dishes)
buildSideDish(kind, dishes) ==
    IF kind = "VegetarianMealBuilder" THEN VegetarianMealBuilder_buildSideDish(dishes)
    ELSE NonVegetarianMealBuilder_buildSideDish(dishes)
buildDrink(kind, dishes) ==
    IF kind = "VegetarianMealBuilder" THEN VegetarianMealBuilder_buildDrink(dishes)
    ELSE NonVegetarianMealBuilder_buildDrink(dishes)

\* getMeal() of both builders: return meal, the field itself.
getMeal(meal) == meal

\* (a faulty variant, for comparison: the drink step runs first)
constructMeal_DrinkFirst(kind, dishes) ==
    buildSideDish(kind, buildMainDish(kind, buildDrink(kind, dishes)))

\* MealDirector::constructMeal: the dishes of *meal after its three step calls.
constructMeal(kind, dishes) ==
    buildDrink(kind, buildSideDish(kind, buildMainDish(kind, dishes)))

\* The constructors: meal = new Meal(), an empty dish list.  main() builds
\* with a VegetarianMealBuilder first.
InitBuilder ==
    /\ builderKind = "VegetarianMealBuilder"
    /\ builderMeal = 1
    /\ meals = (1 :> <<>>)
    /\ returnedMeal = NULL
    /\ builderRaised = "none"
    /\ builderLastOp = "new"
    /\ builderCalls = <<>>
    /\ returnedDishes = <<>>

\* A builder of either class is constructed; the client lets go of the
\* previous builder and of the Meal it got from it.
NewBuilder(kind) ==
    /\ builderKind' = kind
    /\ builderMeal' = 1
    /\ meals' = (1 :> <<>>)
    /\ returnedMeal' = NULL
    /\ builderRaised' = "none"
    /\ builderLastOp' = "new"
    /\ builderCalls' = <<>>
    /\ returnedDishes' = <<>>
    /\ UNCHANGED creatorVars
    /\ UNCHANGED registryVars
    /\ UNCHANGED patternVars

BuildMainDish ==
    /\ Len(builderCalls) < MaxCalls
    /\ meals' = [meals EXCEPT ![builderMeal] = buildMainDish(builderKind, @)]
    /\ builderRaised' = "none"
    /\ builderLastOp' = "buildMainDish"
    /\ builderCalls' = Append(builderCalls, "buildMainDish")
    /\ UNCHANGED <<builderKind, builderMeal, returnedMeal, returnedDishes>>
    /\ UNCHANGED creatorVars
    /\ UNCHANGED registryVars
    /\ UNCHANGED patternVars

BuildSideDish ==
    /\ Len(builderCalls) < MaxCalls
    /\ meals' = [meals EXCEPT ![builderMeal] = buildSideDish(builderKind, @)]
    /\ builderRaised' = "none"
    /\ builderLastOp' = "buildSideDish"
    /\ builderCalls' = Append(builderCalls, "buildSideDish")
    /\ UNCHANGED <<builderKind, builderMeal, returnedMeal, returnedDishes>>
    /\ UNCHANGED creatorVars
    /\ UNCHANGED registryVars
    /\ UNCHANGED patternVars

BuildDrink ==
    /\ Len(builderCalls) < MaxCalls
    /\ meals' = [meals EXCEPT ![builderMeal] = buildDrink(builderKind, @)]
    /\ builderRaised' = "none"
    /\ builderLastOp' = "buildDrink"
    /\ builderCalls' = Append(builderCalls, "buildDrink")
    /\ UNCHANGED <<builderKind, builderMeal, returnedMeal, returnedDishes>>
    /\ UNCHANGED creatorVars
    /\ UNCHANGED registryVars
    /\ UNCHANGED patternVars

GetMeal ==
    /\ Len(builderCalls) < MaxCalls
    /\ returnedMeal' = getMeal(builderMeal)
    /\ returnedDishes' = meals[getMeal(builderMeal)]
    /\ builderRaised' = "none"
    /\ builderLastOp' = "getMeal"
    /\ builderCalls' = Append(builderCalls, "getMeal")
    /\ UNCHANGED <<builderKind, builderMeal, meals>>
    /\ UNCHANGED creatorVars
    /\ UNCHANGED registryVars
    /\ UNCHANGED patternVars

\* director.constructMeal(&builder): three steps, then getMeal.
ConstructMeal ==
    /\ Len(builderCalls) + 4 <= MaxCalls
    /\ meals' = [meals EXCEPT ![builderMeal] = constructMeal(builderKind, @)]
    /\ returnedMeal' = getMeal(builderMeal)
    /\ returnedDishes' = meals'[getMeal(builderMeal)]
    /\ builderRaised' = "none"
    /\ builderLastOp' = "constructMeal"
    /\ builderCalls' = builderCalls \o
           <<"buildMainDish", "buildSideDish", "buildDrink", "getMeal">>
    /\ UNCHANGED <<builderKind, builderMeal>>
    /\ UNCHANGED creatorVars
    /\ UNCHANGED registryVars
    /\ UNCHANGED patternVars

NextBuilder ==
    \/ \E kind \in Builders : NewBuilder(kind)
    \/ BuildMainDish
    \/ BuildSideDish
    \/ BuildDrink
    \/ GetMeal
    \/ ConstructMeal

\* ------------------------------------------- prototype: the character registry
\* The characters main() constructs: <<class, name>>.
Exemplars == {<<"Warrior", "Conan">>, <<"Mage", "Gandalf">>, <<"Archer", "Legolas">>}
\* The types main() registers under, and one more that is only ever looked up.
RegTypes == {"warrior", "mage"}
LookupTypes == RegTypes \cup {"archer"}

Addrs == 1 .. MaxChars
FreeCell == [class |-> "", name |-> "", live |-> FALSE]

HasFree(heap) == \E a \in Addrs : ~heap[a].live
\* operator new: the lowest address that holds no live object.
NewAddr(heap) == CHOOSE a \in Addrs : ~heap[a].live /\ \A b \in 1 .. a - 1 : heap[b].live

\* new Warrior(name) / new Mage(name) / new Archer(name)
Construct(heap, class, name) ==
    [heap |-> [heap EXCEPT ![NewAddr(heap)] = [class |-> class, name |-> name, live |-> TRUE]],
     result |-> NewAddr(heap)]

\* The copy constructors behind new Warrior(*this), new Mage(*this), new Archer(*this).
Warrior_clone(heap, this) == Construct(heap, "Warrior", heap[this].name)
Mage_clone(heap, this) == Construct(heap, "Mage", heap[this].name)
Archer_clone(heap, this) == Construct(heap, "Archer", heap[this].name)

\* (a faulty variant, for comparison: clone returns this)
clone_Shallow(heap, this) == [heap |-> heap, result |-> this]
\* Virtual dispatch of Character::clone on the concrete class of *this.
clone(heap, this) ==
    CASE heap[this].class = "Warrior" -> Warrior_clone(heap, this)
      [] heap[this].class = "Mage" -> Mage_clone(heap, this)
      [] heap[this].class = "Archer" -> Archer_clone(heap, this)

\* (a faulty variant, for comparison: emplace, which keeps an existing entry)
addPrototype_Emplace(protos, type, prototype) ==
    IF type \in DOMAIN protos THEN protos
    ELSE [t \in DOMAIN protos \cup {type} |->
             IF t = type THEN prototype ELSE protos[t]]

\* CharacterRegistry::addPrototype: prototypes[type] = prototype
addPrototype(protos, type, prototype) ==
    [t \in DOMAIN protos \cup {type} |-> IF t = type THEN prototype ELSE protos[t]]

\* (a faulty variant, for comparison: prototypes[type], which inserts a null
\* entry for a missing key and raises nothing)
getPrototype_Subscript(protos, heap, type) ==
    IF type \in DOMAIN protos
    THEN [raised |-> "none", result |-> clone(heap, protos[type]).result,
          heap |-> clone(heap, protos[type]).heap, prototypes |-> protos]
    ELSE [raised |-> "none", result |-> NULL, heap |-> heap,
          prototypes |-> [t \in DOMAIN protos \cup {type} |->
                             IF t = type THEN NULL ELSE protos[t]]]

\* CharacterRegistry::getPrototype: prototypes.at(type)->clone(); at() of the
\* const map throws std::out_of_range for a missing key and inserts nothing.
getPrototype(protos, heap, type) ==
    IF type \in DOMAIN protos
    THEN [raised |-> "none", result |-> clone(heap, protos[type]).result,
          heap |-> clone(heap, protos[type]).heap, prototypes |-> protos]
    ELSE [raised |-> "out_of_range", result |-> NULL, heap |-> heap,
          prototypes |-> protos]

\* CharacterRegistry registry; an empty map, an empty heap.
InitRegistry ==
    /\ chars = [a \in Addrs |-> FreeCell]
    /\ prototypes = <<>>
    /\ issued = <<>>
    /\ regLastOp = "new"
    /\ regLastType = ""
    /\ regResult = NULL
    /\ regRaised = "none"
    /\ addLog = <<>>
    /\ regState = "alive"
    /\ released = [a \in Addrs |-> 0]

\* registry.addPrototype(type, new Class(name))
AddNewPrototype(type, class, name) ==
    /\ regState = "alive"
    /\ Len(addLog) < MaxAdds
    /\ HasFree(chars)
    /\ chars' = Construct(chars, class, name).heap
    /\ prototypes' = addPrototype(prototypes, type, Construct(chars, class, name).result)
    /\ addLog' = Append(addLog, <<type, Construct(chars, class, name).result>>)
    /\ regLastOp' = "addPrototype"
    /\ regLastType' = type
    /\ regResult' = NULL
    /\ regRaised' = "none"
    /\ UNCHANGED <<issued, regState, released>>
    /\ UNCHANGED creatorVars
    /\ UNCHANGED builderVars
    /\ UNCHANGED patternVars

\* registry.addPrototype(type, p) with p an exemplar the registry already holds
AddHeldPrototype(type, held) ==
    /\ regState = "alive"
    /\ Len(addLog) < MaxAdds
    /\ held \in DOMAIN prototypes
    /\ prototypes' = addPrototype(prototypes, type, prototypes[held])
    /\ addLog' = Append(addLog, <<type, prototypes[held]>>)
    /\ regLastOp' = "addPrototype"
    /\ regLastType' = type
    /\ regResult' = NULL
    /\ regRaised' = "none"
    /\ UNCHANGED <<chars, issued, regState, released>>
    /\ UNCHANGED creatorVars
    /\ UNCHANGED builderVars
    /\ UNCHANGED patternVars

\* Character* c = registry.getPrototype(type)
GetPrototype(type) ==
    /\ regState = "alive"
    /\ type \in DOMAIN prototypes => HasFree(chars)
    /\ chars' = getPrototype(prototypes, chars, type).heap
    /\ prototypes' = getPrototype(prototypes, chars, type).prototypes
    /\ regResult' = getPrototype(prototypes, chars, type).result
    /\ regRaised' = getPrototype(prototypes, chars, type).raised
    /\ issued' = IF getPrototype(prototypes, chars, type).result = NULL THEN issued
                  ELSE Append(issued, getPrototype(prototypes, chars, type).result)
    /\ regLastOp' = "getPrototype"
    /\ regLastType' = type
    /\ UNCHANGED <<addLog, regState, released>>
    /\ UNCHANGED creatorVars
    /\ UNCHANGED builderVars
    /\ UNCHANGED patternVars

\* delete c, for a clone c the client holds
DeleteClone(i) ==
    /\ i \in 1 .. Len(issued)
    /\ chars' = [chars EXCEPT ![issued[i]] = FreeCell]
    /\ issued' = [k \in 1 .. Len(issued) - 1 |-> IF k < i THEN issued[k] ELSE issued[k + 1]]
    /\ regLastOp' = "delete"
    /\ regLastType' = ""
    /\ regResult' = NULL
    /\ regRaised' = "none"
    /\ UNCHANGED <<prototypes, addLog, regState, released>>
    /\ UNCHANGED creatorVars
    /\ UNCHANGED builderVars
    /\ UNCHANGED patternVars

\* ~CharacterRegistry: delete pair.second for every entry of the map.  Each
\* entry is deleted whatever the other entries hold, so an exemplar held under
\* n types is deleted n times.
DeletesOf(protos) ==
    [a \in Addrs |-> Cardinality({t \in DOMAIN protos : protos[t] = a})]

\* The registry goes out of scope.  Deleting an object a second time is
\* undefined: the run either goes on as if nothing had happened or is aborted
\* by the allocator at some second delete, with the later entries not reached.
DestroyRegistry ==
    /\ regState = "alive"
    /\ IF \A a \in Addrs : DeletesOf(prototypes)[a] <= 1
       THEN /\ regState' = "destroyed"
            /\ released' = DeletesOf(prototypes)
       ELSE \/ /\ regState' = "destroyed"
               /\ released' = DeletesOf(prototypes)
            \/ /\ regState' = "aborted"
               /\ released' \in {r \in [Addrs -> 0 .. MaxAdds] :
                      /\ \A a \in Addrs : r[a] <= DeletesOf(prototypes)[a]
                      /\ Cardinality({a \in Addrs : r[a] >= 2}) = 1
                      /\ \A a \in Addrs : r[a] <= 2}
    /\ chars' = [a \in Addrs |-> IF released'[a] > 0 THEN FreeCell ELSE chars[a]]
    /\ prototypes' = <<>>
    /\ regLastOp' = "destroy"
    /\ regLastType' = ""
    /\ regResult' = NULL
    /\ regRaised' = "none"
    /\ UNCHANGED <<issued, addLog>>
    /\ UNCHANGED creatorVars
    /\ UNCHANGED builderVars
    /\ UNCHANGED patternVars

NextRegistry ==
    \/ \E type \in RegTypes, e \in Exemplars : AddNewPrototype(type, e[1], e[2])
    \/ \E type \in RegTypes, held \in RegTypes : AddHeldPrototype(type, held)
    \/ \E type \in LookupTypes : GetPrototype(type)
    \/ \E i \in 1 .. MaxChars : DeleteClone(i)

\* ------------------------------------------- singleton: the database connection
ConnStrings == {"Server=myServerAddress;Database=myDataBase;",
                "Different Connection String", ""}
Threads == {"t1", "t2"}

\* (a faulty variant, for comparison: a connection is made on every call)
getInstance_Fresh(instance, heap, connectionStr) ==
    [heap |-> Append(heap, connectionStr),
     instance |-> Len(heap) + 1,
     result |-> Len(heap) + 1]

\* DatabaseConnection::getInstance, run without interruption:
\* if (instance == nullptr) instance = new DatabaseConnection(connectionStr);
\* return instance;
getInstance(instance, heap, connectionStr) ==
    IF instance = NULL
    THEN [heap |-> Append(heap, connectionStr),
          instance |-> Len(heap) + 1,
          result |-> Len(heap) + 1]
    ELSE [heap |-> heap, instance |-> instance, result |-> instance]

\* DatabaseConnection* DatabaseConnection::instance = nullptr;
InitSingleton ==
    /\ dbInstance = NULL
    /\ dbHeap = <<>>
    /\ dbArgs = <<>>
    /\ dbReturned = <<>>
    /\ thPc = [t \in Threads |-> "idle"]
    /\ thArg = [t \in Threads |-> ""]
    /\ thNew = [t \in Threads |-> NULL]
    /\ thRet = [t \in Threads |-> NULL]

\* One thread: DatabaseConnection::getInstance(connectionStr), start to end.
GetInstance(connectionStr) ==
    /\ Len(dbArgs) < MaxGets
    /\ dbHeap' = getInstance(dbInstance, dbHeap, connectionStr).heap
    /\ dbInstance' = getInstance(dbInstance, dbHeap, connectionStr).instance
    /\ dbReturned' = Append(dbReturned, getInstance(dbInstance, dbHeap, connectionStr).result)
    /\ dbArgs' = Append(dbArgs, connectionStr)
    /\ UNCHANGED <<thPc, thArg, thNew, thRet>>
    /\ UNCHANGED creationVars
    /\ UNCHANGED <<observerVars, navigatorVars, coffeeVars, parkingVars>>

\* Two threads, one getInstance call each, interleaved statement by statement.
\* The reads and writes of instance are not synchronised (a data race); the
\* outcomes kept here are those of some interleaving of the statements, and a
\* thread that constructed may return its own object or re-read instance.
ThreadCall(t, connectionStr) ==
    /\ thPc[t] = "idle"
    /\ thPc' = [thPc EXCEPT ![t] = "test"]
    /\ thArg' = [thArg EXCEPT ![t] = connectionStr]
    /\ UNCHANGED <<dbInstance, dbHeap, dbArgs, dbReturned, thNew, thRet>>
    /\ UNCHANGED creationVars
    /\ UNCHANGED <<observerVars, navigatorVars, coffeeVars, parkingVars>>

\* if (instance == nullptr)
ThreadTest(t) ==
    /\ thPc[t] = "test"
    /\ thPc' = [thPc EXCEPT ![t] = IF dbInstance = NULL THEN "new" ELSE "return"]
    /\ UNCHANGED <<dbInstance, dbHeap, dbArgs, dbReturned, thArg, thNew, thRet>>
    /\ UNCHANGED creationVars
    /\ UNCHANGED <<observerVars, navigatorVars, coffeeVars, parkingVars>>

\* new DatabaseConnection(connectionStr): the allocation and the constructor,
\* which copies the string and prints its line.  The object exists; instance
\* has not been written yet.
ThreadNew(t) ==
    /\ thPc[t] = "new"
    /\ dbHeap' = Append(dbHeap, thArg[t])
    /\ thNew' = [thNew EXCEPT ![t] = Len(dbHeap) + 1]
    /\ thPc' = [thPc EXCEPT ![t] = "store"]
    /\ UNCHANGED <<dbInstance, dbArgs, dbReturned, thArg, thRet>>
    /\ UNCHANGED creationVars
    /\ UNCHANGED <<observerVars, navigatorVars, coffeeVars, parkingVars>>

\* instance = <the new object>: the store that ends line 32
ThreadStore(t) ==
    /\ thPc[t] = "store"
    /\ dbInstance' = thNew[t]
    /\ thPc' = [thPc EXCEPT ![t] = "return"]
    /\ UNCHANGED <<dbHeap, dbArgs, dbReturned, thArg, thNew, thRet>>
    /\ UNCHANGED creationVars
    /\ UNCHANGED <<observerVars, navigatorVars, coffeeVars, parkingVars>>

\* return instance;
ThreadReturn(t) ==
    /\ thPc[t] = "return"
    /\ \E r \in {dbInstance} \cup ({thNew[t]} \ {NULL}) :
           thRet' = [thRet EXCEPT ![t] = r]
    /\ thPc' = [thPc EXCEPT ![t] = "done"]
    /\ UNCHANGED <<dbInstance, dbHeap, dbArgs, dbReturned, thArg, thNew>>
    /\ UNCHANGED creationVars
    /\ UNCHANGED <<observerVars, navigatorVars, coffeeVars, parkingVars>>

NextSingleton == \E connectionStr \in ConnStrings : GetInstance(connectionStr)

NextSingletonThreads ==
    \/ \E t \in Threads, connectionStr \in ConnStrings : ThreadCall(t, connectionStr)
    \/ \E t \in Threads : ThreadTest(t)
    \/ \E t \in Threads : ThreadNew(t)
    \/ \E t \in Threads : ThreadStore(t)
    \/ \E t \in Threads : ThreadReturn(t)

\* ------------------------------------------------ observer: the weather station
ObserverIds == {"phone", "web"}
\* 25.5f, 30.0f and 28.2f of main(), in tenths of a degree.
Temps == {255, 300, 282}
\* The member has no initialiser: no value until the first setTemperature.
Indeterminate == 0 - 1

\* WeatherStation::addObserver: observers.push_back(obs)
addObserver(list, obs) == Append(list, obs)

\* (a faulty variant, for comparison: only the first occurrence is erased)
RECURSIVE removeObserver_First(_, _)
removeObserver_First(list, obs) ==
    IF list = <<>> THEN <<>>
    ELSE IF Head(list) = obs THEN Tail(list)
    ELSE <<Head(list)>> \o removeObserver_First(Tail(list), obs)

\* WeatherStation::removeObserver: std::remove moves the elements that differ
\* from obs to the front in their order, erase drops the rest.
RECURSIVE removeObserver(_, _)
removeObserver(list, obs) ==
    IF list = <<>> THEN <<>>
    ELSE IF Head(list) = obs THEN removeObserver(Tail(list), obs)
    ELSE <<Head(list)>> \o removeObserver(Tail(list), obs)

\* (a faulty variant, for comparison: the list is walked from the back)
notifyObservers_Backwards(list, temp) ==
    [i \in 1 .. Len(list) |-> <<list[Len(list) + 1 - i], temp>>]

\* WeatherStation::notifyObservers: for (auto obs : observers) obs->update(temperature)
notifyObservers(list, temp) == [i \in 1 .. Len(list) |-> <<list[i], temp>>]

\* WeatherStation::setTemperature: temperature = temp; notifyObservers();
setTemperature(list, temp) ==
    [temperature |-> temp, updates |-> notifyObservers(list, temp)]

\* new WeatherStation(): an empty list; temperature has no initialiser.
InitObserver ==
    /\ observers = <<>>
    /\ temperature = Indeterminate
    /\ notified = <<>>
    /\ obsLastOp = "new"
    /\ obsLastArg = NULL
    /\ obsBefore = <<>>
    /\ removedSince = {}

AddObserver(obs) ==
    /\ Len(observers) < MaxObservers
    /\ observers' = addObserver(observers, obs)
    /\ removedSince' = removedSince \ {obs}
    /\ obsLastOp' = "addObserver"
    /\ obsLastArg' = obs
    /\ UNCHANGED <<temperature, notified, obsBefore>>
    /\ UNCHANGED creationVars
    /\ UNCHANGED <<singletonVars, navigatorVars, coffeeVars, parkingVars>>

RemoveObserver(obs) ==
    /\ observers' = removeObserver(observers, obs)
    /\ obsBefore' = observers
    /\ removedSince' = removedSince \cup {obs}
    /\ obsLastOp' = "removeObserver"
    /\ obsLastArg' = obs
    /\ UNCHANGED <<temperature, notified>>
    /\ UNCHANGED creationVars
    /\ UNCHANGED <<singletonVars, navigatorVars, coffeeVars, parkingVars>>

SetTemperature(temp) ==
    /\ temperature' = setTemperature(observers, temp).temperature
    /\ notified' = setTemperature(observers, temp).updates
    /\ obsLastOp' = "setTemperature"
    /\ obsLastArg' = temp
    /\ UNCHANGED <<observers, obsBefore, removedSince>>
    /\ UNCHANGED creationVars
    /\ UNCHANGED <<singletonVars, navigatorVars, coffeeVars, parkingVars>>

\* station->notifyObservers() called by the client.  Before the first
\* setTemperature the value read is indeterminate: any float.
NotifyObservers ==
    /\ \E value \in (IF temperature = Indeterminate THEN Temps \cup {0} ELSE {temperature}) :
           notified' = notifyObservers(observers, value)
    /\ obsLastOp' = "notifyObservers"
    /\ obsLastArg' = NULL
    /\ UNCHANGED <<observers, temperature, obsBefore, removedSince>>
    /\ UNCHANGED creationVars
    /\ UNCHANGED <<singletonVars, navigatorVars, coffeeVars, parkingVars>>

NextObserver ==
    \/ \E obs \in ObserverIds : AddObserver(obs)
    \/ \E obs \in ObserverIds : RemoveObserver(obs)
    \/ \E temp \in Temps : SetTemperature(temp)
    \/ NotifyObservers

\* ------------------------------------------------ strategy: the navigator
\* drive, walk and cycle of main(), by the address the navigator is given.
Strategies == {"drive", "walk", "cycle"}
NoStrategy == "nullptr"
\* Navigator declares "RouteStrategy* strategy;" with no initialiser and no
\* constructor: after "Navigator navigator;" the member holds no value.
IndeterminateStrategy == "indeterminate"
\* A non-null pointer that addresses no RouteStrategy, and a call through it.
WildPointer == "garbage"
WildCall == "wild"

\* The values a read of the member can give.  With no value stored, the bits
\* are whatever the memory held: null, garbage, or the stale address of a
\* live strategy.
HeldBy(strategy) ==
    IF strategy = IndeterminateStrategy
    THEN Strategies \cup {NoStrategy, WildPointer}
    ELSE {strategy}

\* DrivingStrategy / WalkingStrategy / CyclingStrategy ::buildRoute
buildRoute(strategy) ==
    CASE strategy = "drive" -> "Calculating driving route"
      [] strategy = "walk"  -> "Calculating walking route"
      [] strategy = "cycle" -> "Calculating cycling route"

\* Navigator::setStrategy
setStrategy(newStrategy) == newStrategy

\* Navigator::navigate, for the pointer value the test reads
navigate(strategy) ==
    IF strategy # NoStrategy
    THEN IF strategy = WildPointer
         THEN [message |-> "", invoked |-> <<WildCall>>]
         ELSE [message |-> buildRoute(strategy), invoked |-> <<strategy>>]
    ELSE [message |-> "No strategy set!", invoked |-> <<>>]

\* Navigator navigator;
InitNavigator ==
    /\ navStrategy = IndeterminateStrategy
    /\ navLog = <<>>

SetStrategy(newStrategy) ==
    /\ Len(navLog) < MaxNavCalls
    /\ navStrategy' = setStrategy(newStrategy)
    /\ navLog' = Append(navLog, [op |-> "setStrategy", arg |-> newStrategy])
    /\ UNCHANGED creationVars
    /\ UNCHANGED <<singletonVars, observerVars, coffeeVars, parkingVars>>

\* navigator.navigate(start, end).  The member is not written; each read of a
\* member that was never set may give different bits.
Navigate ==
    /\ Len(navLog) < MaxNavCalls
    /\ \E held \in HeldBy(navStrategy) :
           navLog' = Append(navLog, [op |-> "navigate", arg |-> navigate(held)])
    /\ UNCHANGED navStrategy
    /\ UNCHANGED creationVars
    /\ UNCHANGED <<singletonVars, observerVars, coffeeVars, parkingVars>>

NextNavigator ==
    \/ \E newStrategy \in Strategies \cup {NoStrategy} : SetStrategy(newStrategy)
    \/ Navigate

\* ------------------------------------------------ decorator: the coffee chain
Decorators == {"MilkDecorator", "SugarDecorator", "WhippedCreamDecorator"}

\* SimpleCoffee::cost, in tenths of a dollar
SimpleCoffee_cost == 50
\* SimpleCoffee::description
SimpleCoffee_description == "Simple Coffee"

\* MilkDecorator::cost, given coffee->cost()
MilkDecorator_cost(inner) == inner + 15
\* MilkDecorator::description, given coffee->description()
MilkDecorator_description(inner) == inner \o ", Milk"

\* SugarDecorator::cost
SugarDecorator_cost(inner) == inner + 5
\* SugarDecorator::description
SugarDecorator_description(inner) == inner \o ", Sugar"

\* WhippedCreamDecorator::cost
WhippedCreamDecorator_cost(inner) == inner + 20
\* WhippedCreamDecorator::description
WhippedCreamDecorator_description(inner) == inner \o ", Whipped Cream"

\* (a faulty variant, for comparison: a decorator charges the base price plus
\* its own add-on and does not ask the coffee it wraps)
cost_Flat(heap, ptr) ==
    CASE heap[ptr].class = "SimpleCoffee" -> SimpleCoffee_cost
      [] heap[ptr].class = "MilkDecorator" -> MilkDecorator_cost(SimpleCoffee_cost)
      [] heap[ptr].class = "SugarDecorator" -> SugarDecorator_cost(SimpleCoffee_cost)
      [] heap[ptr].class = "WhippedCreamDecorator" ->
             WhippedCreamDecorator_cost(SimpleCoffee_cost)

\* ptr->cost(): the virtual call, which a decorator forwards to its coffee
RECURSIVE cost(_, _)
cost(heap, ptr) ==
    CASE heap[ptr].class = "SimpleCoffee" -> SimpleCoffee_cost
      [] heap[ptr].class = "MilkDecorator" ->
             MilkDecorator_cost(cost(heap, heap[ptr].coffee))
      [] heap[ptr].class = "SugarDecorator" ->
             SugarDecorator_cost(cost(heap, heap[ptr].coffee))
      [] heap[ptr].class = "WhippedCreamDecorator" ->
             WhippedCreamDecorator_cost(cost(heap, heap[ptr].coffee))

\* ptr->description()
RECURSIVE description(_, _)
description(heap, ptr) ==
    CASE heap[ptr].class = "SimpleCoffee" -> SimpleCoffee_description
      [] heap[ptr].class = "MilkDecorator" ->
             MilkDecorator_description(description(heap, heap[ptr].coffee))
      [] heap[ptr].class = "SugarDecorator" ->
             SugarDecorator_description(description(heap, heap[ptr].coffee))
      [] heap[ptr].class = "WhippedCreamDecorator" ->
             WhippedCreamDecorator_description(description(heap, heap[ptr].coffee))

\* CoffeeDecorator::CoffeeDecorator(Coffee* c) : coffee(c), by "new"
newDecorator(heap, class, c) == Append(heap, [class |-> class, coffee |-> c])

\* Coffee* myCoffee = new SimpleCoffee(); and the line printed for it
InitCoffee ==
    /\ coffeeHeap = <<[class |-> "SimpleCoffee", coffee |-> NULL]>>
    /\ myCoffee = 1
    /\ printed = [description |-> SimpleCoffee_description, cost |-> SimpleCoffee_cost]

\* myCoffee = new XDecorator(c); cout << myCoffee->description() << myCoffee->cost()
\* main always passes myCoffee; any coffee already built may be wrapped.
Decorate(class, c) ==
    /\ Len(coffeeHeap) < MaxCoffees
    /\ coffeeHeap' = newDecorator(coffeeHeap, class, c)
    /\ myCoffee' = Len(coffeeHeap')
    /\ printed' = [description |-> description(coffeeHeap', myCoffee'),
                   cost |-> cost(coffeeHeap', myCoffee')]
    /\ UNCHANGED creationVars
    /\ UNCHANGED <<singletonVars, observerVars, navigatorVars, parkingVars>>

NextCoffee ==
    \E class \in Decorators : \E c \in 1 .. Len(coffeeHeap) : Decorate(class, c)

\* ------------------------------------------------ parking lot
\* The vehicles, by number plate, and the null shared_ptr.
Vehicles == {"DL-001", "DL-002", "DL-003"}
NoVehicle == "nullptr"
\* Car / Bike constructors: Vehicle::type
VehicleType(v) == IF v = "DL-003" THEN "BIKE" ELSE "CAR"

\* The lot: floor 1 as main() builds it (car, bike and truck spot) and a
\* second floor with one car spot.  A spot is named by its position here.
SpotTypes == <<"CAR", "BIKE", "TRUCK", "CAR">>
SpotIds == 1 .. Len(SpotTypes)
Floors == <<<<1, 2, 3>>, <<4>>>>

\* ParkingSpot::assignVehicle
assignVehicle(spot, v) ==
    IF ~spot.isAvailable
    THEN [spot |-> spot, result |-> FALSE]
    ELSE [spot |-> [isAvailable |-> FALSE, currentVehicle |-> v], result |-> TRUE]

\* ParkingSpot::removeVehicle
removeVehicle(spot) == [isAvailable |-> TRUE, currentVehicle |-> NoVehicle]

\* ParkingFloor::getAvailableSpot: the first spot of the floor of the
\* required type that is available, or NULL
getAvailableSpot(floor, all, vtype) ==
    LET fits == {i \in 1 .. Len(floor) :
                    SpotTypes[floor[i]] = vtype /\ all[floor[i]].isAvailable}
    IN  IF fits = {} THEN NULL
        ELSE floor[CHOOSE i \in fits : \A j \in fits : i <= j]

\* ParkingLot::parkVehicle from floor f on: the spots afterwards and the spot
\* the ticket names, or NULL when the loop runs out of floors
RECURSIVE parkVehicle(_, _, _)
parkVehicle(f, all, vehicle) ==
    IF f > Len(Floors) THEN [spots |-> all, spot |-> NULL]
    ELSE LET spot == getAvailableSpot(Floors[f], all, VehicleType(vehicle))
         IN  IF spot # NULL /\ assignVehicle(all[spot], vehicle).result
             THEN [spots |-> [all EXCEPT ![spot] = assignVehicle(all[spot], vehicle).spot],
                   spot |-> spot]
             ELSE parkVehicle(f + 1, all, vehicle)

\* ParkingLot::unparkVehicle: ticket->spot->removeVehicle()
unparkVehicle(all, ticket) == [all EXCEPT ![ticket.spot] = removeVehicle(all[ticket.spot])]

\* ParkingSpot's member initialisers for every spot; no ticket yet.
InitParking ==
    /\ spots = [s \in SpotIds |-> [isAvailable |-> TRUE, currentVehicle |-> NoVehicle]]
    /\ tickets = <<>>
    /\ parkLast = [op |-> "new", spot |-> NULL, before |-> NULL, result |-> FALSE]

\* spot->assignVehicle(v): v is any shared_ptr<Vehicle>, the null one
\* (which VehicleFactory::createVehicle can return) included.
AssignVehicle(s, v) ==
    /\ spots' = [spots EXCEPT ![s] = assignVehicle(spots[s], v).spot]
    /\ parkLast' = [op |-> "assignVehicle", spot |-> s, before |-> spots[s],
                    result |-> assignVehicle(spots[s], v).result]
    /\ UNCHANGED tickets
    /\ UNCHANGED creationVars
    /\ UNCHANGED <<singletonVars, observerVars, navigatorVars, coffeeVars>>

\* spot->removeVehicle()
RemoveVehicle(s) ==
    /\ spots' = [spots EXCEPT ![s] = removeVehicle(spots[s])]
    /\ parkLast' = [op |-> "removeVehicle", spot |-> s, before |-> spots[s],
                    result |-> FALSE]
    /\ UNCHANGED tickets
    /\ UNCHANGED creationVars
    /\ UNCHANGED <<singletonVars, observerVars, navigatorVars, coffeeVars>>

\* lot->parkVehicle(vehicle): vehicle->type is read, so vehicle is an object.
ParkVehicle(vehicle) ==
    /\ Len(tickets) < MaxTickets
    /\ LET parked == parkVehicle(1, spots, vehicle)
       IN  /\ spots' = parked.spots
           /\ tickets' = IF parked.spot = NULL THEN tickets
                         ELSE Append(tickets, [vehicle |-> vehicle, spot |-> parked.spot])
           /\ parkLast' = [op |-> "parkVehicle", spot |-> parked.spot,
                           before |-> IF parked.spot = NULL THEN NULL
                                      ELSE spots[parked.spot],
                           result |-> parked.spot # NULL]
    /\ UNCHANGED creationVars
    /\ UNCHANGED <<singletonVars, observerVars, navigatorVars, coffeeVars>>

\* lot->unparkVehicle(ticket), for any ticket issued so far
UnparkVehicle(id) ==
    /\ spots' = unparkVehicle(spots, tickets[id])
    /\ parkLast' = [op |-> "unparkVehicle", spot |-> tickets[id].spot,
                    before |-> spots[tickets[id].spot], result |-> FALSE]
    /\ UNCHANGED tickets
    /\ UNCHANGED creationVars
    /\ UNCHANGED <<singletonVars, observerVars, navigatorVars, coffeeVars>>

NextParking ==
    \/ \E s \in SpotIds : \E v \in Vehicles \cup {NoVehicle} : AssignVehicle(s, v)
    \/ \E s \in SpotIds : RemoveVehicle(s)
    \/ \E vehicle \in Vehicles : ParkVehicle(vehicle)
    \/ \E id \in 1 .. Len(tickets) : UnparkVehicle(id)

Init ==
    /\ InitCreator /\ InitBuilder /\ InitRegistry
    /\ InitSingleton /\ InitObserver /\ InitNavigator /\ InitCoffee
    /\ InitParking

SpecCreator == Init /\ [][NextCreator]_vars
SpecBuilder == Init /\ [][NextBuilder]_vars
SpecRegistry == Init /\ [][NextRegistry]_vars

\* The registry with its whole life, destruction included.
NextRegistryLife ==
    \/ NextRegistry
    \/ DestroyRegistry

SpecRegistryLife == Init /\ [][NextRegistryLife]_vars
SpecSingleton == Init /\ [][NextSingleton]_vars
SpecSingletonThreads == Init /\ [][NextSingletonThreads]_vars
SpecObserver == Init /\ [][NextObserver]_vars
SpecNavigator == Init /\ [][NextNavigator]_vars
SpecCoffee == Init /\ [][NextCoffee]_vars
SpecParking == Init /\ [][NextParking]_vars

\* ------------------------------------------------------------ the claims
ValidShippingTags == {1, 2, 3}
ValidFurnitureTags == {1, 2}

\* C1: for every selector that is not a known variant tag, creation fails with
\* UnknownVariant and produces no product (no shipping method, no furniture
\* factory); a default variant is never substituted.
C1_UnknownSelectorFails ==
    /\ (shippingChoice # NoChoice /\ shippingChoice \notin ValidShippingTags)
           => (shippingRaised = "UnknownVariant" /\ shippingMethod = "null")
    /\ (furnitureChoice # NoChoice /\ furnitureChoice \notin ValidFurnitureTags)
           => (furnitureRaised = "UnknownVariant" /\ furnitureFactory = "null")

DocumentedShipping(tag) ==
    CASE tag = 1 -> [class |-> "AirShipping", tenths |-> 5]
      [] tag = 2 -> [class |-> "SeaShipping", tenths |-> 3]
      [] tag = 3 -> [class |-> "GroundShipping", tenths |-> 1]

\* C2: for every valid tag the created method is the documented variant
\* (1 Air, 2 Sea, 3 Ground) and every cost it has computed is
\* weight * distance * rate, with rate 0.5, 0.3, 0.1 (here in tenths).
C2_ValidTagVariantAndCost ==
    shippingChoice \in ValidShippingTags =>
        /\ shippingMethod = DocumentedShipping(shippingChoice).class
        /\ shipCost # 0 - 1 =>
               shipCost = shipWeight * shipDistance
                              * DocumentedShipping(shippingChoice).tenths

\* Witness of C2: Air, weight 10, distance 500 costs 2500.0; Sea and Ground
\* have been costed on non-zero inputs as well (seen by the cost value).
C2_Witness ==
    /\ shippingChoice = 1
    /\ shippingMethod = "AirShipping"
    /\ shipWeight = MainWeight
    /\ shipDistance = MainDistance
    /\ shipCost = 25000

FamilyOf(factory) ==
    CASE factory = "VictorianFurnitureFactory" -> "Victorian"
      [] factory = "ModernFurnitureFactory" -> "Modern"

\* C3: after any sequence of createChair and createSofa calls on a factory,
\* every product it has produced has the factory's own style.
C3_OneFamily ==
    \A i \in 1 .. Len(furniture) : StyleOf(furniture[i]) = FamilyOf(furnitureFactory)

\* Witness of C3: a Modern factory has produced chairs and sofas.
C3_Witness ==
    /\ furnitureFactory = "ModernFurnitureFactory"
    /\ Len(furniture) >= 3
    /\ \E i, j \in 1 .. Len(furniture) :
           furniture[i] = "ModernChair" /\ furniture[j] = "ModernSofa"

DirectedMeal(kind) ==
    IF kind = "VegetarianMealBuilder" THEN <<"Vegetarian Burger", "Salad", "Lemonade">>
    ELSE <<"Chicken Burger", "Fries", "Coke">>

\* C4: constructMeal on a fresh builder runs main, side, drink, getMeal in that
\* order, so the Meal it returns lists exactly [main, side, drink] of the builder.
C4_DirectorOrder ==
    (builderLastOp = "constructMeal" /\ Len(builderCalls) = 4) =>
        /\ returnedMeal # NULL
        /\ meals[returnedMeal] = DirectedMeal(builderKind)
        /\ returnedDishes = DirectedMeal(builderKind)

C4_Witness ==
    /\ builderLastOp = "constructMeal"
    /\ Len(builderCalls) = 4
    /\ builderKind = "NonVegetarianMealBuilder"
    /\ meals[returnedMeal] = <<"Chicken Burger", "Fries", "Coke">>

Steps == {"buildMainDish", "buildSideDish", "buildDrink"}

\* The member calls made before the last one.
CallsBeforeLast == SubSeq(builderCalls, 1, Len(builderCalls) - 1)

AllStepsRun(calls) ==
    \A step \in Steps : \E i \in 1 .. Len(calls) : calls[i] = step

\* C5: getMeal before all three steps have run fails with IncompleteBuild and
\* yields no Meal; getMeal after all three returns a Meal holding all three.
C5_ExtractNeedsAllSteps ==
    builderLastOp = "getMeal" =>
        IF AllStepsRun(CallsBeforeLast)
        THEN /\ builderRaised = "none"
             /\ returnedMeal # NULL
             /\ \A d \in {DirectedMeal(builderKind)[k] : k \in 1 .. 3} :
                    \E i \in 1 .. Len(meals[returnedMeal]) : meals[returnedMeal][i] = d
        ELSE /\ builderRaised = "IncompleteBuild"
             /\ returnedMeal = NULL

\* C6: once getMeal has returned a Meal, no later step on the builder changes
\* that Meal, and every constructMeal run returns a Meal of exactly the three
\* dishes of one run.
C6_ExtractResets ==
    /\ returnedMeal # NULL => meals[returnedMeal] = returnedDishes
    /\ builderLastOp = "constructMeal" =>
           (returnedMeal # NULL /\ Len(meals[returnedMeal]) = 3)

DishOf(kind, step) ==
    CASE step = "buildMainDish" -> DirectedMeal(kind)[1]
      [] step = "buildSideDish" -> DirectedMeal(kind)[2]
      [] step = "buildDrink" -> DirectedMeal(kind)[3]

\* The step calls of a call history, in call order.
StepCalls(calls) == SelectSeq(calls, LAMBDA c : c \in Steps)

\* C7: repeating a step accumulates, the same way for all three steps and both
\* builders: the Meal lists one dish per step call, in call order, and no
\* step call is ever rejected.
C7_StepsAccumulate ==
    /\ builderRaised = "none"
    /\ Len(meals[builderMeal]) = Len(StepCalls(builderCalls))
    /\ \A i \in 1 .. Len(meals[builderMeal]) :
           meals[builderMeal][i] = DishOf(builderKind, StepCalls(builderCalls)[i])

\* Witness of C7: each step of the vegetarian builder has been called twice.
C7_Witness ==
    /\ builderKind = "VegetarianMealBuilder"
    /\ builderCalls = <<"buildSideDish", "buildSideDish", "buildMainDish",
                         "buildDrink", "buildDrink", "buildMainDish">>
    /\ meals[builderMeal] = <<"Salad", "Salad", "Vegetarian Burger",
                               "Lemonade", "Lemonade", "Vegetarian Burger">>

LoggedTypes == {addLog[i][1] : i \in 1 .. Len(addLog)}
\* The exemplar of the most recent addPrototype call for a type.
LastLogged(type) ==
    LET last == CHOOSE i \in 1 .. Len(addLog) :
                    /\ addLog[i][1] = type
                    /\ \A j \in i + 1 .. Len(addLog) : addLog[j][1] # type
    IN addLog[last][2]

SameCharacter(a, b) ==
    /\ chars[a].live /\ chars[b].live
    /\ chars[a].class = chars[b].class
    /\ chars[a].name = chars[b].name

\* What holds of the clones in every state.
C8_NoAliasing ==
    /\ \A i \in 1 .. Len(issued) :
           /\ chars[issued[i]].live
           /\ \A t \in DOMAIN prototypes : issued[i] # prototypes[t]
           /\ \A j \in 1 .. Len(issued) : i # j => issued[i] # issued[j]
    /\ \A t \in DOMAIN prototypes : chars[prototypes[t]].live
    /\ (regLastOp = "getPrototype" /\ regLastType \in DOMAIN prototypes) =>
           /\ Len(issued) > 0 /\ regResult = issued[Len(issued)]
           /\ SameCharacter(regResult, prototypes[regLastType])

\* What holds of every delete of a clone.
C8_DeleteIsLocal ==
    regLastOp' = "delete" =>
        /\ \A t \in DOMAIN prototypes : chars'[prototypes[t]] = chars[prototypes[t]]
        /\ \A k \in 1 .. Len(issued') : chars'[issued'[k]] = chars[issued'[k]]

\* C8: for every registered type getPrototype returns a new Character of the
\* exemplar's class and name; no clone the client holds is the exemplar or
\* another clone, and deleting a clone leaves every exemplar and every other
\* clone as it was.
C8_ClonesIndependent == [](C8_NoAliasing) /\ [][C8_DeleteIsLocal]_vars

\* Witness of C8: of two clones of one exemplar the first was deleted; the
\* second and the exemplar are still the same character.
C8_Witness ==
    /\ regLastOp = "delete"
    /\ Len(issued) = 1
    /\ \E t \in DOMAIN prototypes :
           /\ prototypes[t] < issued[1] - 1
           /\ SameCharacter(issued[1], prototypes[t])
           /\ ~chars[issued[1] - 1].live

\* C9: addPrototype is last write wins per type: the map holds, for every type
\* ever added, the exemplar of the most recent add, other types keep theirs,
\* and getPrototype clones that exemplar.
C9_LastWriteWins ==
    /\ DOMAIN prototypes = LoggedTypes
    /\ \A t \in LoggedTypes : prototypes[t] = LastLogged(t)
    /\ (regLastOp = "getPrototype" /\ regLastType \in LoggedTypes) =>
           /\ regResult # NULL
           /\ SameCharacter(regResult, LastLogged(regLastType))

\* Witness of C9: warrior was added with a Warrior, then mage with a Mage, then
\* warrior again with the Mage; the clone of warrior is a Mage, and mage has
\* kept its exemplar.
C9_Witness ==
    /\ Len(addLog) = 3
    /\ addLog[1][1] = "warrior" /\ addLog[2][1] = "mage" /\ addLog[3][1] = "warrior"
    /\ addLog[1][2] # addLog[3][2]
    /\ regLastOp = "getPrototype" /\ regLastType = "warrior"
    /\ chars[addLog[1][2]].class = "Warrior"
    /\ chars[regResult].class = "Mage"
    /\ prototypes["mage"] = addLog[2][2]

LiveChars == {a \in Addrs : chars[a].live}
LoggedAddrs == {addLog[i][2] : i \in 1 .. Len(addLog)}

\* C10: getPrototype for a type that was never added raises an error to the
\* caller (std::out_of_range, the program's UnknownVariant), returns no
\* Character, allocates none, and leaves the registry's types and exemplars
\* as they were: no entry appears for the unknown type.
C10_UnknownTypeRaises ==
    (regLastOp = "getPrototype" /\ regLastType \notin LoggedTypes) =>
        /\ regRaised = "out_of_range"
        /\ regResult = NULL
        /\ regLastType \notin DOMAIN prototypes
        /\ DOMAIN prototypes = LoggedTypes
        /\ \A t \in LoggedTypes : prototypes[t] = LastLogged(t)
        /\ LiveChars = LoggedAddrs \cup {issued[i] : i \in 1 .. Len(issued)}

\* Witness of C10: with warrior and mage registered, archer was looked up.
C10_Witness ==
    /\ regLastOp = "getPrototype"
    /\ regLastType = "archer"
    /\ regRaised = "out_of_range"
    /\ DOMAIN prototypes = {"warrior", "mage"}

\* C11: when the registry has been destroyed, every exemplar that was ever
\* passed to addPrototype has been released exactly once: none is leaked and
\* none is deleted twice.
C11_ExemplarsReleasedOnce ==
    regState # "alive" => \A a \in LoggedAddrs : released[a] = 1

\* C12: after any sequence of sequential getInstance calls the constructor has
\* run exactly once, every call has returned the same instance, and that
\* instance holds the connection string of the first call.
C12_OneInstanceFirstString ==
    Len(dbArgs) >= 1 =>
        /\ Len(dbHeap) = 1
        /\ Len(dbReturned) = Len(dbArgs)
        /\ \A i \in 1 .. Len(dbReturned) :
               dbReturned[i] # NULL /\ dbReturned[i] = dbReturned[1]
        /\ dbInstance = dbReturned[1]
        /\ dbHeap[dbReturned[1]] = dbArgs[1]

\* Witness of C12: three calls, the later ones with other strings than the first.
C12_Witness ==
    /\ Len(dbArgs) = 3
    /\ dbArgs[1] = "Server=myServerAddress;Database=myDataBase;"
    /\ dbArgs[2] = "Different Connection String"
    /\ dbArgs[3] = ""
    /\ dbHeap = <<"Server=myServerAddress;Database=myDataBase;">>

\* C17: when two threads call getInstance concurrently with no instance yet,
\* at most one DatabaseConnection is constructed and both calls return the
\* same instance.
C17_OneInstanceConcurrently ==
    /\ Len(dbHeap) <= 1
    /\ (\A t \in Threads : thPc[t] = "done") =>
           \A t, u \in Threads : thRet[t] = thRet[u]

\* C13: setTemperature(t) stores t and, before it returns, has called update
\* with exactly t on every registered observer, in registration order, once
\* per registration, and on no one else.
C13_SetTemperatureNotifiesAll ==
    obsLastOp = "setTemperature" =>
        /\ temperature = obsLastArg
        /\ Len(notified) = Len(observers)
        /\ \A i \in 1 .. Len(observers) : notified[i] = <<observers[i], obsLastArg>>

\* Witness of C13: web is registered twice around phone and 28.2 was set.
C13_Witness ==
    /\ obsLastOp = "setTemperature"
    /\ observers = <<"web", "phone", "web">>
    /\ notified = <<<<"web", 282>>, <<"phone", 282>>, <<"web", 282>>>>

\* C14: after removeObserver(o) no later notification reaches o until o is
\* added again, however often o had been added; the other observers keep
\* their order, and removing an observer that is not registered changes nothing.
C14_RemovedStaysSilent ==
    /\ \A o \in removedSince :
           /\ \A i \in 1 .. Len(observers) : observers[i] # o
           /\ obsLastOp \in {"setTemperature", "notifyObservers"} =>
                  \A i \in 1 .. Len(notified) : notified[i][1] # o
    /\ obsLastOp = "removeObserver" =>
           /\ observers = SelectSeq(obsBefore, LAMBDA x : x # obsLastArg)
           /\ (\A i \in 1 .. Len(obsBefore) : obsBefore[i] # obsLastArg) =>
                  observers = obsBefore

\* Witness of C14: web, added twice, was removed; the next setTemperature
\* reached phone only.
C14_Witness ==
    /\ obsBefore = <<"web", "phone", "web">>
    /\ removedSince = {"web"}
    /\ obsLastOp = "setTemperature"
    /\ notified = <<<<"phone", 282>>>>

\* The setStrategy calls made before call i of the navigator.
SetsBefore(i) == {j \in 1 .. i - 1 : navLog[j].op = "setStrategy"}
LastSetBefore(i) == navLog[CHOOSE j \in SetsBefore(i) : \A k \in SetsBefore(i) : k <= j].arg

\* C15: navigate before any setStrategy reports "No strategy set!" and invokes
\* no strategy; after one or more setStrategy calls it invokes buildRoute
\* exactly once, on the most recently set strategy and on no other.
C15_NavigateUsesLatestStrategy ==
    \A i \in 1 .. Len(navLog) :
        navLog[i].op = "navigate" =>
            IF SetsBefore(i) = {}
            THEN navLog[i].arg = [message |-> "No strategy set!", invoked |-> <<>>]
            ELSE LastSetBefore(i) \in Strategies =>
                     navLog[i].arg.invoked = <<LastSetBefore(i)>>

\* The decorators around the SimpleCoffee under ptr, innermost first.
RECURSIVE LayersOf(_)
LayersOf(ptr) ==
    IF coffeeHeap[ptr].class = "SimpleCoffee" THEN <<>>
    ELSE Append(LayersOf(coffeeHeap[ptr].coffee), coffeeHeap[ptr].class)

AddOnPrice == [MilkDecorator |-> 15, SugarDecorator |-> 5, WhippedCreamDecorator |-> 20]
AddOnName ==
    [MilkDecorator |-> "Milk", SugarDecorator |-> "Sugar",
     WhippedCreamDecorator |-> "Whipped Cream"]

LayerCount(layers, class) == Cardinality({i \in 1 .. Len(layers) : layers[i] = class})
PriceOfLayers(layers) ==
    50 + LayerCount(layers, "MilkDecorator") * AddOnPrice["MilkDecorator"]
       + LayerCount(layers, "SugarDecorator") * AddOnPrice["SugarDecorator"]
       + LayerCount(layers, "WhippedCreamDecorator") * AddOnPrice["WhippedCreamDecorator"]

RECURSIVE NamesOfLayers(_)
NamesOfLayers(layers) ==
    IF layers = <<>> THEN "Simple Coffee"
    ELSE NamesOfLayers(SubSeq(layers, 1, Len(layers) - 1))
             \o ", " \o AddOnName[layers[Len(layers)]]

\* C16: for every chain of Milk, Sugar and WhippedCream decorators around a
\* SimpleCoffee, cost() is 5.0 plus the add-on prices, once per layer, so two
\* chains with the same layers in another order cost the same; description()
\* is "Simple Coffee" followed by the add-on names, innermost first.
C16_CostSumsDescriptionInOrder ==
    /\ printed.cost = PriceOfLayers(LayersOf(myCoffee))
    /\ printed.description = NamesOfLayers(LayersOf(myCoffee))
    /\ \A ptr \in 1 .. Len(coffeeHeap) :
           (\A class \in Decorators :
                LayerCount(LayersOf(ptr), class) = LayerCount(LayersOf(myCoffee), class))
               => cost(coffeeHeap, ptr) = printed.cost

\* Witness of C16: sugar then milk has been wrapped and printed at $7, and a
\* coffee with milk then sugar exists beside it.
C16_Witness ==
    /\ LayersOf(myCoffee) = <<"SugarDecorator", "MilkDecorator">>
    /\ printed = [description |-> "Simple Coffee, Sugar, Milk", cost |-> 70]
    /\ \E ptr \in 1 .. Len(coffeeHeap) :
           LayersOf(ptr) = <<"MilkDecorator", "SugarDecorator">>

\* C18: in every state reached by assignVehicle, removeVehicle, parkVehicle
\* and unparkVehicle each spot has isAvailable exactly when currentVehicle is
\* null, and assignVehicle on an occupied spot returns false and leaves the
\* occupant and the flag as they were.
C18_AvailableIffEmpty ==
    /\ \A s \in SpotIds : spots[s].isAvailable = (spots[s].currentVehicle = NoVehicle)
    /\ (parkLast.op = "assignVehicle" /\ parkLast.before.currentVehicle # NoVehicle) =>
           /\ parkLast.result = FALSE
           /\ spots[parkLast.spot] = parkLast.before

====
